---- MODULE Spec2Model ----
(***************************************************************************)
(* The user directory of learning-crud-react: the in-memory Store          *)
(* (userService), the four HTTP endpoints built on it (GET and POST on     *)
(* /api/users, PUT and DELETE on /api/users/[id]), and the UserTable       *)
(* component that uses them from the browser.                              *)
(*                                                                         *)
(* JavaScript values are modelled as follows.  A JSON object is a function *)
(* from its property names to strings (a record).  The values undefined    *)
(* and null are the two one-field records Undefined and Null, which no     *)
(* JSON object of the model equals.  An array of users is a sequence.      *)
(***************************************************************************)
EXTENDS Integers, Sequences, FiniteSets, TLC

VARIABLES
    users,   \* userService.ts:15  the module-level array `users`
    now,     \* the wall clock, in milliseconds since process start
    last,    \* the last Store call or HTTP request, its arguments and result
    nOps,    \* number of Store calls / HTTP requests made so far
    hist,    \* what the callers have been told so far (see HistInit)
    held,    \* the array a caller kept from getAll (a reference), or "none"
    snap,    \* the contents of that array when getAll returned it
    reqs,    \* the requests being handled concurrently (ConcSpec)
    log,     \* the Store calls of those requests, in the order invoked
    uiUsers,      \* UserTable: the state `users` (line 35)
    isModalOpen,  \* UserTable: the state `isModalOpen` (line 41)
    editingUser,  \* UserTable: the state `editingUser` (line 47)
    isLoading,    \* UserTable: the state `isLoading` (line 53)
    mounted,      \* UserTable: the mount effect (lines 62-64) has run
    tasks,        \* UserTable: the async functions suspended at an await
    clicks,       \* number of submits and confirmed deletes so far
    faults,       \* number of requests that went wrong so far
    ev            \* how the last step of the component ended ("" when
                  \* nothing is to be said of it)

\* The variables of the UserTable component (UISpec).
uiVars == <<uiUsers, isModalOpen, editingUser, isLoading, mounted, tasks,
            clicks, faults, ev>>

vars == <<users, now, last, nOps, hist, held, snap, reqs, log, uiVars>>

\* The variables that only AliasSpec, ConcSpec and UISpec change.
otherVars == <<held, snap, reqs, log, uiVars>>

----------------------------------------------------------------------------
(* Bounds of the model. *)

\* The clock takes the readings 0..MaxClock.
MaxClock == 1

\* At most MaxOps Store calls (StoreSpec) or HTTP requests (Spec) per run.
MaxOps == 3

\* At most MaxReqs requests are handled concurrently (ConcSpec).
MaxReqs == 2

\* At most MaxClicks submits and confirmed deletes are made in the UI.
MaxClicks == 2

\* At most MaxFaults requests of the UI go wrong.
MaxFaults == 1

\* The click budget of the specification with fairness (UIFairSpec).
MaxFairClicks == 1

----------------------------------------------------------------------------
(* JavaScript values. *)

Undefined == [undefined |-> TRUE]
Null == [null |-> TRUE]
EmptyObj == [k \in {} |-> ""]

\* The own enumerable properties an object spread `...v` copies: none for
\* null and undefined, the object's properties otherwise.
Props(v) == IF v = Null \/ v = Undefined THEN EmptyObj ELSE v

\* { ...a, ...b }: b's properties override a's.
Spread(a, b) ==
    [k \in (DOMAIN Props(a)) \cup (DOMAIN Props(b)) |->
        IF k \in DOMAIN Props(b) THEN Props(b)[k] ELSE Props(a)[k]]

\* !obj.k for an object whose property values are strings: true when the
\* property is missing (undefined) or the empty string.
Falsy(obj, k) == k \notin DOMAIN obj \/ obj[k] = ""

----------------------------------------------------------------------------
(* The clock and its two string conversions.  The process starts at        *)
(* 1762435000000 ms after the epoch (2025-11-06T13:16:40.000Z); `now` is   *)
(* the number of milliseconds elapsed since, below 1000.                   *)

Digit == <<"0", "1", "2", "3", "4", "5", "6", "7", "8", "9">>

\* n in 0..999 as three decimal digits.
Pad3(n) ==
    Digit[((n \div 100) % 10) + 1] \o Digit[((n \div 10) % 10) + 1] \o Digit[(n % 10) + 1]

\* Date.now().toString(): the decimal digits of the millisecond count.
DateNowToString(t) == "1762435000" \o Pad3(t)

\* new Date().toISOString()
ToISOString(t) == "2025-11-06T13:16:40." \o Pad3(t) \o "Z"

----------------------------------------------------------------------------
(* The Store: userService.  Every operation is a function of the array,    *)
(* its arguments and the clock, giving the new array and the return value. *)

\* A variant of SeedUsers with the first two sample users in the other order.
SeedUsers_Swapped ==
    << [id |-> "2", name |-> "Jane Smith", email |-> "jane@example.com",
        role |-> "User", createdAt |-> ToISOString(0)],
       [id |-> "1", name |-> "John Doe", email |-> "john@example.com",
        role |-> "Admin", createdAt |-> ToISOString(0)],
       [id |-> "3", name |-> "Bob Johnson", email |-> "bob@example.com",
        role |-> "User", createdAt |-> ToISOString(0)] >>

\* The three sample users.  The three `new Date()` of the array literal are
\* read when the module loads, at clock reading 0.
SeedUsers ==
    << [id |-> "1", name |-> "John Doe", email |-> "john@example.com",
        role |-> "Admin", createdAt |-> ToISOString(0)],
       [id |-> "2", name |-> "Jane Smith", email |-> "jane@example.com",
        role |-> "User", createdAt |-> ToISOString(0)],
       [id |-> "3", name |-> "Bob Johnson", email |-> "bob@example.com",
        role |-> "User", createdAt |-> ToISOString(0)] >>

\* Array.prototype.findIndex((user) => user.id === id): the 0-based index of
\* the first match, -1 when there is none.
findIndex(us, id) ==
    IF \E i \in 1..Len(us) : "id" \in DOMAIN us[i] /\ us[i].id = id
    THEN (CHOOSE i \in 1..Len(us) :
             /\ "id" \in DOMAIN us[i] /\ us[i].id = id
             /\ \A j \in 1..(i - 1) : ~("id" \in DOMAIN us[j] /\ us[j].id = id)) - 1
    ELSE -1

\* A variant of find that is off by one position.
find_OffByOne(us, id) ==
    IF findIndex(us, id) = -1 \/ findIndex(us, id) + 2 > Len(us)
    THEN Undefined
    ELSE us[findIndex(us, id) + 2]

\* Array.prototype.find((user) => user.id === id)
find(us, id) == IF findIndex(us, id) = -1 THEN Undefined ELSE us[findIndex(us, id) + 1]

getAll(us) == us

getById(us, id) == find(us, id)

\* The object literal of create: id first, then the spread of data, then
\* createdAt, so data overrides id and createdAt overrides data.
NewUser(data, t) ==
    Spread(Spread([id |-> DateNowToString(t)], data), [createdAt |-> ToISOString(t)])

\* A variant of create that puts the new record first (unshift for push).
create_Unshift(us, data, t) ==
    [users |-> <<NewUser(data, t)>> \o us, ret |-> NewUser(data, t)]

create(us, data, t) ==
    [users |-> Append(us, NewUser(data, t)), ret |-> NewUser(data, t)]

\* A variant of MergedUser that stores data alone, dropping the existing
\* fields.
MergedUser_DataOnly(old, data) == Props(data)

\* A variant of MergedUser with the two spreads in the other order, so that
\* the existing fields win over data.
MergedUser_ExistingWins(old, data) == Spread(data, old)

\* The object literal of update: the existing fields, overridden by data.
MergedUser(old, data) == Spread(old, data)

\* A variant of update that adds a record when the id is not found.
update_Upsert(us, id, data) ==
    LET index == findIndex(us, id) IN
    IF index = -1
    THEN [users |-> Append(us, Spread([id |-> id], data)),
          ret |-> Spread([id |-> id], data)]
    ELSE LET after == [us EXCEPT ![index + 1] = Spread(us[index + 1], data)]
         IN  [users |-> after, ret |-> after[index + 1]]

update(us, id, data) ==
    LET index == findIndex(us, id) IN
    IF index = -1
    THEN [users |-> us, ret |-> Null]
    ELSE LET after == [us EXCEPT ![index + 1] = MergedUser(us[index + 1], data)]
         IN  [users |-> after, ret |-> after[index + 1]]

\* A variant of Splice1 without the delete count: splice(index) removes the
\* record and everything after it.
Splice1_RemovesRest(us, index) == [i \in 1..index |-> us[i]]

\* users.splice(index, 1)
Splice1(us, index) ==
    [i \in 1..(Len(us) - 1) |-> IF i <= index THEN us[i] ELSE us[i + 1]]

\* A variant of delete that removes every record with the id (filter for
\* findIndex and splice).
delete_AllMatching(us, id) ==
    LET index == findIndex(us, id) IN
    IF index = -1
    THEN [users |-> us, ret |-> FALSE]
    ELSE [users |-> SelectSeq(us, LAMBDA u : u.id # id), ret |-> TRUE]

delete(us, id) ==
    LET index == findIndex(us, id) IN
    IF index = -1
    THEN [users |-> us, ret |-> FALSE]
    ELSE [users |-> Splice1(us, index), ret |-> TRUE]

----------------------------------------------------------------------------
(* Inputs. *)

Ann == [name |-> "Ann", email |-> "ann@x.com", role |-> "User"]
Eve == [name |-> "Eve", email |-> "eve@x.com", role |-> "Admin"]

\* Objects handed to create: two well-typed CreateUserDto, and objects that
\* carry properties the type does not declare (types are erased at run time).
CreateInputs ==
    { Ann, Eve,
      Spread(Ann, [id |-> "1"]),
      Spread(Ann, [id |-> ""]),
      Spread(Ann, [createdAt |-> "1999-01-01T00:00:00.000Z"]) }

\* Objects handed to update: partials of name, email and role, and objects
\* that carry id or createdAt.
UpdateInputs ==
    { EmptyObj,
      [name |-> "X"],
      [email |-> "x@y.z", role |-> "Manager"],
      [name |-> ""],
      [id |-> "2"],
      [createdAt |-> "1999-01-01T00:00:00.000Z"] }

LiveIds(us) == { us[i].id : i \in 1..Len(us) }

\* The ids a caller asks for: the live ids and one no record has.  The third
\* seed record is never addressed: it stands for the records a call is not
\* about.
IdsToTry(us) == (LiveIds(us) \ {"3"}) \cup {"does-not-exist"}

----------------------------------------------------------------------------
(* Initial state and the Store-level actions. *)

\* The record kept of a direct Store call: the operation, its arguments, the
\* array before the call, the value returned and, for a create, the clock
\* reading it was made at (0 for the other calls, which read no clock).
StoreCall(op, id, data, pre, ret) ==
    [op |-> op, id |-> id, data |-> data, fault |-> "none", pre |-> pre,
     ret |-> ret, calls |-> <<op>>, threw |-> FALSE, status |-> 0,
     body |-> Undefined, at |-> IF op = "create" THEN now ELSE 0]

NoCall ==
    [op |-> "none", id |-> "", data |-> Undefined, fault |-> "none",
     pre |-> SeedUsers, ret |-> Undefined, calls |-> <<>>, threw |-> FALSE,
     status |-> 0, body |-> Undefined, at |-> 0]

\* The callers' view of the Store, built only from what the Store returned:
\*   creates           the number of create calls made,
\*   removed           the number of delete calls that returned true,
\*   known             per record, in array position, the value returned by the
\*                     create or update that last touched it (for a sample
\*                     user never touched, its value at process start),
\*   born              per record, the createdAt it was created with.
HistInit ==
    [creates |-> 0, removed |-> 0, known |-> SeedUsers,
     born |-> [i \in 1..Len(SeedUsers) |-> SeedUsers[i].createdAt]]

\* seq without its k-th element (k counted from 1).
RemoveAt(seq, k) == SubSeq(seq, 1, k - 1) \o SubSeq(seq, k + 1, Len(seq))

\* hist after the Store call op(id, ...) made on the array pre returned ret.
\* The record an update or delete touched is the first one with that id.
HistAfter(h, op, pre, id, ret) ==
    CASE op = "create" ->
            [h EXCEPT !.creates = @ + 1,
                      !.known = Append(@, ret),
                      !.born = Append(@, ret.createdAt)]
      [] op = "update" /\ ret # Null ->
            [h EXCEPT !.known[findIndex(pre, id) + 1] = ret]
      [] op = "delete" /\ ret ->
            [h EXCEPT !.removed = @ + 1,
                      !.known = RemoveAt(@, findIndex(pre, id) + 1),
                      !.born = RemoveAt(@, findIndex(pre, id) + 1)]
      [] OTHER -> h

\* A request slot no request has arrived in yet.
Idle ==
    [pc |-> "idle", kind |-> "", req |-> Undefined, awaited |-> 0,
     seen |-> <<>>, status |-> 0, body |-> Undefined]

Init ==
    /\ users = SeedUsers
    /\ now = 0
    /\ last = NoCall
    /\ nOps = 0
    /\ hist = HistInit
    /\ held = "none"
    /\ snap = <<>>
    /\ reqs = [i \in 1..MaxReqs |-> Idle]
    /\ log = <<>>
    /\ uiUsers = [array |-> <<>>]
    /\ isModalOpen = FALSE
    /\ editingUser = Undefined
    /\ isLoading = TRUE
    /\ mounted = FALSE
    /\ tasks = <<>>
    /\ clicks = 0
    /\ faults = 0
    /\ ev = ""

\* Time passes.
Tick ==
    /\ now < MaxClock
    /\ now' = now + 1
    /\ UNCHANGED <<users, last, nOps, hist>>
    /\ UNCHANGED otherVars

CallGetAll ==
    /\ nOps < MaxOps
    /\ users' = users
    /\ last' = StoreCall("getAll", "", Undefined, users, getAll(users))
    /\ nOps' = nOps + 1
    /\ UNCHANGED otherVars
    /\ UNCHANGED <<now, hist>>

CallGetById ==
    /\ nOps < MaxOps
    /\ \E id \in IdsToTry(users) :
        /\ users' = users
        /\ last' = StoreCall("getById", id, Undefined, users, getById(users, id))
    /\ nOps' = nOps + 1
    /\ UNCHANGED otherVars
    /\ UNCHANGED <<now, hist>>

CallCreate ==
    /\ nOps < MaxOps
    /\ \E data \in CreateInputs :
        LET r == create(users, data, now) IN
        /\ users' = r.users
        /\ last' = StoreCall("create", "", data, users, r.ret)
        /\ hist' = HistAfter(hist, "create", users, "", r.ret)
    /\ nOps' = nOps + 1
    /\ UNCHANGED otherVars
    /\ UNCHANGED now

CallUpdate ==
    /\ nOps < MaxOps
    /\ \E id \in IdsToTry(users), data \in UpdateInputs :
        LET r == update(users, id, data) IN
        /\ users' = r.users
        /\ last' = StoreCall("update", id, data, users, r.ret)
        /\ hist' = HistAfter(hist, "update", users, id, r.ret)
    /\ nOps' = nOps + 1
    /\ UNCHANGED otherVars
    /\ UNCHANGED now

CallDelete ==
    /\ nOps < MaxOps
    /\ \E id \in IdsToTry(users) :
        LET r == delete(users, id) IN
        /\ users' = r.users
        /\ last' = StoreCall("delete", id, Undefined, users, r.ret)
        /\ hist' = HistAfter(hist, "delete", users, id, r.ret)
    /\ nOps' = nOps + 1
    /\ UNCHANGED otherVars
    /\ UNCHANGED now

StoreNext ==
    \/ Tick
    \/ CallGetAll
    \/ CallGetById
    \/ CallCreate
    \/ CallUpdate
    \/ CallDelete

\* The Store called directly.
StoreSpec == Init /\ [][StoreNext]_vars

----------------------------------------------------------------------------
(* The API layer: the four route handlers.  A request is a record          *)
(*   [id, fault, body]: the route parameter, what goes wrong while the     *)
(*   handler awaits ("none"; "params": the params promise rejects;         *)
(*   "json": request.json() rejects with a SyntaxError), and the parsed    *)
(*   body.  The outcome of a handler is the array afterwards, the Store    *)
(*   methods it called, and either a response (status, body) or an         *)
(*   exception that left the handler (threw).                              *)

Respond(us, calls, status, body) ==
    [users |-> us, calls |-> calls, threw |-> FALSE, exc |-> "",
     status |-> status, body |-> body]

Throw(us, calls, exc) ==
    [users |-> us, calls |-> calls, threw |-> TRUE, exc |-> exc,
     status |-> 0, body |-> Undefined]

\* A variant of Catch that puts the exception into the response body.
Catch_LeakException(try, message) ==
    IF try.threw
    THEN Respond(try.users, try.calls, 500, [error |-> try.exc])
    ELSE try

\* catch (error) { return NextResponse.json({ error: message }, { status: 500 }) }
Catch(try, message) ==
    IF try.threw
    THEN Respond(try.users, try.calls, 500, [error |-> message])
    ELSE try

\* A variant of PUTTry without the not-found branch.
PUTTry_NoNotFound(us, req) ==
    IF req.fault = "params" THEN Throw(us, <<>>, "Error")
    ELSE IF req.fault = "json" THEN Throw(us, <<>>, "SyntaxError")
    ELSE LET r == update(us, req.id, req.body) IN
         Respond(r.users, <<"update">>, 200, r.ret)

\* The try block of PUT.
PUTTry(us, req) ==
    IF req.fault = "params" THEN Throw(us, <<>>, "Error")
    ELSE IF req.fault = "json" THEN Throw(us, <<>>, "SyntaxError")
    ELSE LET r == update(us, req.id, req.body) IN
         IF r.ret = Null
         THEN Respond(r.users, <<"update">>, 404, [error |-> "User not found"])
         ELSE Respond(r.users, <<"update">>, 200, r.ret)

PUT(us, req) == Catch(PUTTry(us, req), "Failed to update user")

\* The try block of DELETE.
DELETETry(us, req) ==
    IF req.fault = "params" THEN Throw(us, <<>>, "Error")
    ELSE LET r == delete(us, req.id) IN
         IF ~r.ret
         THEN Respond(r.users, <<"delete">>, 404, [error |-> "User not found"])
         ELSE Respond(r.users, <<"delete">>, 200,
                      [message |-> "User deleted successfully"])

DELETE(us, req) == Catch(DELETETry(us, req), "Failed to delete user")

\* The try block of GET.
GETTry(us) == Respond(us, <<"getAll">>, 200, getAll(us))

GET(us) == Catch(GETTry(us), "Failed to fetch users")

\* A variant of POSTTry whose validation forgets role.
POSTTry_RoleNotChecked(us, req, t) ==
    IF req.fault = "json" THEN Throw(us, <<>>, "SyntaxError")
    ELSE IF req.body = Null THEN Throw(us, <<>>, "TypeError")
    ELSE IF Falsy(req.body, "name") \/ Falsy(req.body, "email")
    THEN Respond(us, <<>>, 400, [error |-> "Name, email, and role are required"])
    ELSE LET r == create(us, req.body, t) IN
         Respond(r.users, <<"create">>, 201, r.ret)

\* A variant of POSTTry that stores the record before it validates the body.
POSTTry_CreateFirst(us, req, t) ==
    IF req.fault = "json" THEN Throw(us, <<>>, "SyntaxError")
    ELSE IF req.body = Null THEN Throw(us, <<>>, "TypeError")
    ELSE LET r == create(us, req.body, t) IN
         IF Falsy(req.body, "name") \/ Falsy(req.body, "email") \/ Falsy(req.body, "role")
         THEN Respond(r.users, <<>>, 400, [error |-> "Name, email, and role are required"])
         ELSE Respond(r.users, <<"create">>, 201, r.ret)

\* The try block of POST.  Reading body.name of a null body raises a
\* TypeError.
POSTTry(us, req, t) ==
    IF req.fault = "json" THEN Throw(us, <<>>, "SyntaxError")
    ELSE IF req.body = Null THEN Throw(us, <<>>, "TypeError")
    ELSE IF Falsy(req.body, "name") \/ Falsy(req.body, "email") \/ Falsy(req.body, "role")
    THEN Respond(us, <<>>, 400, [error |-> "Name, email, and role are required"])
    ELSE LET r == create(us, req.body, t) IN
         Respond(r.users, <<"create">>, 201, r.ret)

POST(us, req, t) == Catch(POSTTry(us, req, t), "Failed to create user")

----------------------------------------------------------------------------
(* Requests. *)

\* JSON bodies sent to POST: valid ones (CreateInputs), ones with a required
\* field empty or missing, the empty object and the JSON value null.
PostBodies ==
    CreateInputs \cup
    { [name |-> "", email |-> "a@b.com", role |-> "User"],
      [name |-> "Ann", email |-> "ann@x.com"],
      [name |-> "Ann", email |-> "", role |-> "User"],
      EmptyObj,
      Null }

\* JSON bodies sent to PUT.
PutBodies == UpdateInputs \cup {Null}

PostRequests ==
    { [id |-> "", fault |-> "none", body |-> b] : b \in PostBodies } \cup
    { [id |-> "", fault |-> "json", body |-> Undefined] }

PutRequests(us) ==
    { [id |-> id, fault |-> "none", body |-> b] : id \in IdsToTry(us), b \in PutBodies } \cup
    { [id |-> id, fault |-> f, body |-> Undefined] : id \in {"1"}, f \in {"params", "json"} }

DeleteRequests(us) ==
    { [id |-> id, fault |-> "none", body |-> Undefined] : id \in IdsToTry(us) } \cup
    { [id |-> "1", fault |-> "params", body |-> Undefined] }

\* The record kept of a request: the endpoint, the request, the array before
\* it and the handler's outcome.
HttpCall(op, req, pre, out) ==
    [op |-> op, id |-> req.id, data |-> req.body, fault |-> req.fault,
     pre |-> pre, ret |-> Undefined, calls |-> out.calls, threw |-> out.threw,
     status |-> out.status, body |-> out.body,
     at |-> IF out.calls = <<"create">> THEN now ELSE 0]

\* hist after a request: the handler made at most one Store call, and its
\* response tells what that call returned.
HistAfterHttp(h, pre, req, out) ==
    CASE out.calls = <<"create">> -> HistAfter(h, "create", pre, "", out.body)
      [] out.calls = <<"update">> ->
            HistAfter(h, "update", pre, req.id,
                      IF out.status = 200 THEN out.body ELSE Null)
      [] out.calls = <<"delete">> ->
            HistAfter(h, "delete", pre, req.id, out.status = 200)
      [] OTHER -> h

----------------------------------------------------------------------------
(* The HTTP-level actions: one request handled from start to response. *)

ReqGET ==
    /\ nOps < MaxOps
    /\ LET out == GET(users) IN
        /\ users' = out.users
        /\ last' = HttpCall("GET", [id |-> "", fault |-> "none", body |-> Undefined],
                            users, out)
    /\ nOps' = nOps + 1
    /\ UNCHANGED otherVars
    /\ UNCHANGED <<now, hist>>

ReqPOST ==
    /\ nOps < MaxOps
    /\ \E req \in PostRequests :
        LET out == POST(users, req, now) IN
        /\ users' = out.users
        /\ last' = HttpCall("POST", req, users, out)
        /\ hist' = HistAfterHttp(hist, users, req, out)
    /\ nOps' = nOps + 1
    /\ UNCHANGED otherVars
    /\ UNCHANGED now

ReqPUT ==
    /\ nOps < MaxOps
    /\ \E req \in PutRequests(users) :
        LET out == PUT(users, req) IN
        /\ users' = out.users
        /\ last' = HttpCall("PUT", req, users, out)
        /\ hist' = HistAfterHttp(hist, users, req, out)
    /\ nOps' = nOps + 1
    /\ UNCHANGED otherVars
    /\ UNCHANGED now

ReqDELETE ==
    /\ nOps < MaxOps
    /\ \E req \in DeleteRequests(users) :
        LET out == DELETE(users, req) IN
        /\ users' = out.users
        /\ last' = HttpCall("DELETE", req, users, out)
        /\ hist' = HistAfterHttp(hist, users, req, out)
    /\ nOps' = nOps + 1
    /\ UNCHANGED otherVars
    /\ UNCHANGED now

Next ==
    \/ Tick
    \/ ReqGET
    \/ ReqPOST
    \/ ReqPUT
    \/ ReqDELETE

\* The Store driven through the HTTP endpoints.
Spec == Init /\ [][Next]_vars

----------------------------------------------------------------------------
(* A caller that keeps what getAll returned.  getAll returns the module's  *)
(* array itself (`return users`), not a copy, and create, update and       *)
(* delete change that array in place (push, element assignment, splice);   *)
(* the binding `users` is never reassigned.  So there is one array object, *)
(* and a reference to it reads the current contents.                       *)

\* The identity of the array object bound to `users`.
UsersArray == "users"

\* What getAll hands to its caller: the array object itself.
getAllReturns == UsersArray

\* The contents read through a reference, the module's array holding us.
ContentsOf(ref, us) == IF ref = UsersArray THEN us ELSE <<>>

\* A record a caller adds to the array it was given.
Stray ==
    [id |-> "stray", name |-> "Mallory", email |-> "m@x.com", role |-> "User",
     createdAt |-> "2000-01-01T00:00:00.000Z"]

\* A caller calls getAll and keeps the result.
KeepGetAll ==
    /\ nOps < MaxOps
    /\ held' = getAllReturns
    /\ snap' = getAll(users)
    /\ users' = users
    /\ last' = StoreCall("getAll", "", Undefined, users, getAll(users))
    /\ nOps' = nOps + 1
    /\ UNCHANGED <<now, hist, reqs, log, uiVars>>

\* The caller pushes a record onto the array it kept.
CallerPush ==
    /\ nOps < MaxOps
    /\ held # "none"
    /\ users' = IF held = UsersArray THEN Append(users, Stray) ELSE users
    /\ snap' = Append(snap, Stray)
    /\ last' = StoreCall("callerPush", "", Stray, users, Undefined)
    /\ hist' = IF held = UsersArray
               THEN [hist EXCEPT !.known = Append(@, Stray),
                                 !.born = Append(@, Stray.createdAt)]
               ELSE hist
    /\ nOps' = nOps + 1
    /\ UNCHANGED <<now, held, reqs, log, uiVars>>

AliasNext ==
    \/ Tick
    \/ KeepGetAll
    \/ CallerPush
    \/ CallCreate
    \/ CallUpdate
    \/ CallDelete

\* The Store called directly by a caller that keeps the array getAll returned.
AliasSpec == Init /\ [][AliasNext]_vars

----------------------------------------------------------------------------
(* Requests handled concurrently.  A handler runs without interruption     *)
(* from one await to the next (JavaScript runs each continuation to        *)
(* completion); other handlers run only while it is suspended at           *)
(* `await params` or `await request.json()`.  Everything after a handler's *)
(* last await (the Store call and the building of the response) is one     *)
(* step.                                                                   *)

\* The await points of each handler, in order.
Awaits(kind) ==
    CASE kind = "PUT" -> <<"params", "json">>
      [] kind = "DELETE" -> <<"params">>
      [] kind = "POST" -> <<"json">>
      [] kind = "GET" -> <<>>

Handle(kind, us, req, t) ==
    CASE kind = "GET" -> GET(us)
      [] kind = "POST" -> POST(us, req, t)
      [] kind = "PUT" -> PUT(us, req)
      [] kind = "DELETE" -> DELETE(us, req)

\* The requests that arrive.
ConcRequests ==
    { [kind |-> "PUT", req |-> [id |-> "1", fault |-> "none", body |-> [name |-> "X"]]],
      [kind |-> "PUT", req |-> [id |-> "1", fault |-> "none",
                                body |-> [email |-> "x@y.z", role |-> "Manager"]]],
      [kind |-> "PUT", req |-> [id |-> "1", fault |-> "json", body |-> Undefined]],
      [kind |-> "POST", req |-> [id |-> "", fault |-> "none", body |-> Ann]],
      [kind |-> "POST", req |-> [id |-> "", fault |-> "none", body |-> Eve]],
      [kind |-> "DELETE", req |-> [id |-> "1", fault |-> "none", body |-> Undefined]],
      [kind |-> "GET", req |-> [id |-> "", fault |-> "none", body |-> Undefined]] }

\* A variant of ArrayAtCall: the array as the handler saw it on arrival.
ArrayAtCall_AtArrival(r, us) == r.seen

\* The array a handler's Store call works on: the module's array as it is
\* when the call is made (the Store methods read `users` when they run).
ArrayAtCall(r, us) == us

\* The handler of slot i, in local state r, runs from its last await (or
\* from the await that raised) to its return.
Finish(i, r) ==
    LET out == Handle(r.kind, ArrayAtCall(r, users), r.req, now) IN
    /\ users' = out.users
    /\ reqs' = [reqs EXCEPT ![i] = [r EXCEPT !.pc = "done", !.status = out.status,
                                             !.body = out.body]]
    /\ log' = IF out.calls = <<>>
              THEN log
              ELSE Append(log, [op |-> out.calls[1], id |-> r.req.id,
                                data |-> r.req.body, at |-> now])

\* A request arrives in the next free slot; its handler runs to its first
\* await, or to its return when it has none.
ConcArrive ==
    \E i \in 1..MaxReqs :
        /\ reqs[i].pc = "idle"
        /\ \A j \in 1..(i - 1) : reqs[j].pc # "idle"
        /\ \E cr \in ConcRequests :
            LET r == [pc |-> "await", kind |-> cr.kind, req |-> cr.req,
                      awaited |-> 0, seen |-> users, status |-> 0,
                      body |-> Undefined] IN
            IF Awaits(cr.kind) = <<>>
            THEN Finish(i, r)
            ELSE /\ reqs' = [reqs EXCEPT ![i] = r]
                 /\ UNCHANGED <<users, log>>
        /\ UNCHANGED <<now, last, nOps, hist, held, snap, uiVars>>

\* A suspended handler is resumed: it runs to its next await, or, after its
\* last await or when the awaited promise rejected, to its return.
ConcResume ==
    \E i \in 1..MaxReqs :
        /\ reqs[i].pc = "await"
        /\ LET r == [reqs[i] EXCEPT !.awaited = @ + 1] IN
            IF \/ r.awaited = Len(Awaits(r.kind))
               \/ r.req.fault = Awaits(r.kind)[r.awaited]
            THEN Finish(i, r)
            ELSE /\ reqs' = [reqs EXCEPT ![i] = r]
                 /\ UNCHANGED <<users, log>>
        /\ UNCHANGED <<now, last, nOps, hist, held, snap, uiVars>>

ConcNext ==
    \/ Tick
    \/ ConcArrive
    \/ ConcResume

\* The endpoints with several requests in flight.
ConcSpec == Init /\ [][ConcNext]_vars

\* The array after one logged Store call.
ApplyCall(c, us) ==
    CASE c.op = "create" -> create(us, c.data, c.at).users
      [] c.op = "update" -> update(us, c.id, c.data).users
      [] c.op = "delete" -> delete(us, c.id).users
      [] OTHER -> us

\* The array after the logged Store calls, made one at a time in order.
RECURSIVE Replay(_, _)
Replay(l, us) == IF l = <<>> THEN us ELSE Replay(Tail(l), ApplyCall(Head(l), us))

----------------------------------------------------------------------------
(* The UserTable component.  Its four pieces of React state are uiUsers    *)
(* (`users` in the source; the name users is the Store's array here),      *)
(* isModalOpen, editingUser and isLoading.  Its async functions            *)
(* (fetchUsers, handleCreate, handleUpdate, handleDelete) run without      *)
(* interruption from one await to the next; while one is suspended the     *)
(* user can click and other suspended functions can resume.  State updates *)
(* made in one such run are applied together.                              *)
(*                                                                         *)
(* A task is a suspended call [fn, method, pc, id, data, resp]: the        *)
(* function the user or the mount effect called, the request it is         *)
(* waiting on, and where that request is:                                  *)
(*   "sent"      fetch() was called, the server has not handled it yet,    *)
(*   "answered"  the response is on its way back (resp is set),            *)
(*   "json"      fetch() has resolved, response.json() is awaited.         *)
(* handleCreate, handleUpdate and handleDelete first wait on their own     *)
(* request and then, inside `await fetchUsers()`, on a GET.                *)

\* A response body as it travels: the JSON text of an array, the JSON text
\* of an object, or text that is no JSON.  response.json() gives back the
\* array or the object, and rejects for the last.
JsonArray(seq) == [array |-> seq]
JsonObject(obj) == [object |-> obj]
NotJson == [text |-> "<html>"]
IsArray(v) == "array" \in DOMAIN v

\* response.ok
Ok(resp) == resp.status >= 200 /\ resp.status <= 299

\* What the form hands to onSubmit: name and email are `required` inputs,
\* role is one of the options of the select.
FormInputs == { Ann }

\* The rows whose buttons are clicked: those showing the id of the first
\* sample user.
RowsToClick(v) == { v.array[i] : i \in { j \in 1..Len(v.array) : v.array[j].id = "1" } }

\* The table, with its buttons and the modal, is on screen: the component
\* renders the spinner while isLoading, and the table body needs an array.
\* The buttons of the table stay reachable (with the keyboard) while the
\* modal is open.
Rendered == ~isLoading /\ IsArray(uiUsers)

Task(fn, method, id, data) ==
    [fn |-> fn, method |-> method, pc |-> "sent", id |-> id, data |-> data,
     resp |-> Undefined]

\* The request of a task as the route handler receives it.  JSON.stringify
\* and request.json() give back the same name, email and role strings.
RequestOf(t) == [id |-> t.id, fault |-> "none", body |-> t.data]

\* The response the browser gets from a handler's outcome.
ResponseOf(t, out) ==
    [status |-> out.status,
     body |-> IF t.method = "GET" /\ out.status = 200
              THEN JsonArray(out.body)
              ELSE JsonObject(out.body)]

\* A variant of LoadingAfterFetch that clears isLoading on success only.
LoadingAfterFetch_NotOnError(loading, rejected) == IF rejected THEN loading ELSE FALSE

\* finally { setIsLoading(false) }
LoadingAfterFetch(loading, rejected) == FALSE

\* try { ... setUsers(data) } catch { }: the users state when fetchUsers
\* ends; data is what response.json() gave, when nothing was thrown.
UsersAfterFetch(old, rejected, data) == IF rejected THEN old ELSE data

\* The end of fetchUsers (catch and finally included) for task i, followed
\* by the rest of the function that awaited it: handleCreate closes the
\* modal, handleUpdate closes it and clears editingUser.
FetchUsersEnds(i, rejected, data) ==
    /\ uiUsers' = UsersAfterFetch(uiUsers, rejected, data)
    /\ isLoading' = LoadingAfterFetch(isLoading, rejected)
    /\ isModalOpen' = IF tasks[i].fn \in {"handleCreate", "handleUpdate"}
                      THEN FALSE ELSE isModalOpen
    /\ editingUser' = IF tasks[i].fn = "handleUpdate" THEN Undefined ELSE editingUser
    /\ tasks' = RemoveAt(tasks, i)

\* A variant of OnAnswer that refreshes the list whatever the answer.
OnAnswer_AlwaysRefetch(ok) == "fetchUsers"

\* if (response.ok) { await fetchUsers(); ... }
OnAnswer(ok) == IF ok THEN "fetchUsers" ELSE "return"

\* handleCreate, handleUpdate or handleDelete (task i) ends without having
\* called fetchUsers: its request was answered with response.ok false, or
\* fetch() rejected and the catch logged it.
HandlerGivesUp(i) ==
    /\ tasks' = RemoveAt(tasks, i)
    /\ UNCHANGED <<uiUsers, isModalOpen, editingUser, isLoading>>

\* ev after the request of a create or update failed.
FailedEv(t) == IF t.fn \in {"handleCreate", "handleUpdate"} THEN "failed" ELSE ""

\* The variables no step of the component changes.
serverGhosts == <<last, nOps, hist, held, snap, reqs, log>>

\* useEffect(() => { fetchUsers() }, []): the effect of the first render.
Mount ==
    /\ ~mounted
    /\ mounted' = TRUE
    /\ tasks' = Append(tasks, Task("fetchUsers", "GET", "", Undefined))
    /\ ev' = ""
    /\ UNCHANGED <<uiUsers, isModalOpen, editingUser, isLoading, clicks, faults>>
    /\ UNCHANGED <<users, now, serverGhosts>>

openCreateModal ==
    /\ Rendered
    /\ editingUser' = Undefined
    /\ isModalOpen' = TRUE
    /\ ev' = ""
    /\ UNCHANGED <<uiUsers, isLoading, mounted, tasks, clicks, faults>>
    /\ UNCHANGED <<users, now, serverGhosts>>

openEditModal ==
    /\ Rendered
    /\ \E user \in RowsToClick(uiUsers) : editingUser' = user
    /\ isModalOpen' = TRUE
    /\ ev' = ""
    /\ UNCHANGED <<uiUsers, isLoading, mounted, tasks, clicks, faults>>
    /\ UNCHANGED <<users, now, serverGhosts>>

\* The close button, the backdrop or the form's Cancel button is clicked.
closeModal ==
    /\ Rendered
    /\ isModalOpen
    /\ isModalOpen' = FALSE
    /\ editingUser' = Undefined
    /\ ev' = ""
    /\ UNCHANGED <<uiUsers, isLoading, mounted, tasks, clicks, faults>>
    /\ UNCHANGED <<users, now, serverGhosts>>

\* handleCreate, up to its await: the POST is sent.
handleCreate(data) ==
    tasks' = Append(tasks, Task("handleCreate", "POST", "", data))

\* handleUpdate, up to its await: nothing without an editingUser, else the
\* PUT for editingUser.id is sent.
handleUpdate(data) ==
    IF editingUser = Undefined
    THEN UNCHANGED tasks
    ELSE tasks' = Append(tasks, Task("handleUpdate", "PUT", editingUser.id, data))

\* The form in the modal is submitted:
\* onSubmit={editingUser ? handleUpdate : handleCreate}.
Submit(budget) ==
    /\ Rendered
    /\ isModalOpen
    /\ clicks < budget
    /\ \E data \in FormInputs :
          IF editingUser # Undefined THEN handleUpdate(data) ELSE handleCreate(data)
    /\ clicks' = clicks + 1
    /\ ev' = ""
    /\ UNCHANGED <<uiUsers, isModalOpen, editingUser, isLoading, mounted, faults>>
    /\ UNCHANGED <<users, now, serverGhosts>>

\* The delete button of a row is clicked: handleDelete up to its await.  The
\* user answers the confirm dialog; on Cancel the function returns.
handleDelete(budget) ==
    /\ Rendered
    /\ \E user \in RowsToClick(uiUsers), confirmed \in BOOLEAN :
          IF ~confirmed
          THEN /\ ev' = "declined"
               /\ UNCHANGED <<tasks, clicks>>
          ELSE /\ clicks < budget
               /\ tasks' = Append(tasks, Task("handleDelete", "DELETE", user.id, Undefined))
               /\ clicks' = clicks + 1
               /\ ev' = ""
    /\ UNCHANGED <<uiUsers, isModalOpen, editingUser, isLoading, mounted, faults>>
    /\ UNCHANGED <<users, now, serverGhosts>>

\* The server handles the request of task i.
Serve(i) ==
    /\ tasks[i].pc = "sent"
    /\ LET out == Handle(tasks[i].method, users, RequestOf(tasks[i]), now) IN
        /\ users' = out.users
        /\ tasks' = [tasks EXCEPT ![i].pc = "answered",
                                  ![i].resp = ResponseOf(tasks[i], out)]
    /\ ev' = ""
    /\ UNCHANGED <<uiUsers, isModalOpen, editingUser, isLoading, mounted, clicks, faults>>
    /\ UNCHANGED <<now, serverGhosts>>

\* The try block of the GET handler raises while it handles the request of
\* task i, and its catch answers 500 with an error object.
ServeGetRaises(i) ==
    /\ faults < MaxFaults
    /\ tasks[i].pc = "sent"
    /\ tasks[i].method = "GET"
    /\ LET out == Catch(Throw(users, <<>>, "Error"), "Failed to fetch users") IN
        tasks' = [tasks EXCEPT ![i].pc = "answered",
                               ![i].resp = ResponseOf(tasks[i], out)]
    /\ faults' = faults + 1
    /\ ev' = ""
    /\ UNCHANGED <<uiUsers, isModalOpen, editingUser, isLoading, mounted, clicks>>
    /\ UNCHANGED <<users, now, serverGhosts>>

\* The request of task i never reaches the handler: something on the way
\* answers it with an error page.
GatewayAnswers(i) ==
    /\ faults < MaxFaults
    /\ tasks[i].pc = "sent"
    /\ tasks' = [tasks EXCEPT ![i].pc = "answered",
                              ![i].resp = [status |-> 502, body |-> NotJson]]
    /\ faults' = faults + 1
    /\ ev' = ""
    /\ UNCHANGED <<uiUsers, isModalOpen, editingUser, isLoading, mounted, clicks>>
    /\ UNCHANGED <<users, now, serverGhosts>>

\* fetch() of task i rejects: the request or its response is lost.  Inside
\* fetchUsers the catch logs it and the function ends; in a handler the
\* handler's catch logs it and the handler ends.
FetchRejects(i) ==
    /\ faults < MaxFaults
    /\ tasks[i].pc \in {"sent", "answered"}
    /\ IF tasks[i].method = "GET"
       THEN /\ FetchUsersEnds(i, TRUE, uiUsers)
            /\ ev' = ""
       ELSE /\ HandlerGivesUp(i)
            /\ ev' = FailedEv(tasks[i])
    /\ faults' = faults + 1
    /\ UNCHANGED <<mounted, clicks>>
    /\ UNCHANGED <<users, now, serverGhosts>>

\* fetch() of task i resolves with the response.  fetchUsers goes on to
\* await response.json(); a handler looks at response.ok and either calls
\* fetchUsers, which sends its GET, or returns.
FetchResolves(i) ==
    /\ tasks[i].pc = "answered"
    /\ IF tasks[i].method = "GET"
       THEN /\ tasks' = [tasks EXCEPT ![i].pc = "json"]
            /\ ev' = ""
            /\ UNCHANGED <<uiUsers, isModalOpen, editingUser, isLoading>>
       ELSE /\ IF OnAnswer(Ok(tasks[i].resp)) = "fetchUsers"
               THEN /\ tasks' = [tasks EXCEPT ![i] = Task(tasks[i].fn, "GET", "", Undefined)]
                    /\ UNCHANGED <<uiUsers, isModalOpen, editingUser, isLoading>>
               ELSE HandlerGivesUp(i)
            /\ ev' = IF Ok(tasks[i].resp) THEN "" ELSE FailedEv(tasks[i])
    /\ UNCHANGED <<mounted, clicks, faults>>
    /\ UNCHANGED <<users, now, serverGhosts>>

\* response.json() of task i settles: it rejects for a body that is no JSON,
\* else setUsers(data) is called with whatever was parsed.
JsonSettles(i) ==
    /\ tasks[i].pc = "json"
    /\ IF tasks[i].resp.body = NotJson
       THEN FetchUsersEnds(i, TRUE, uiUsers)
       ELSE FetchUsersEnds(i, FALSE, tasks[i].resp.body)
    /\ ev' = ""
    /\ UNCHANGED <<mounted, clicks, faults>>
    /\ UNCHANGED <<users, now, serverGhosts>>

\* A suspended function of the component moves on.
Progress == \E i \in 1..Len(tasks) : Serve(i) \/ FetchResolves(i) \/ JsonSettles(i)

\* A request of the component goes wrong.
Fault == \E i \in 1..Len(tasks) : ServeGetRaises(i) \/ GatewayAnswers(i) \/ FetchRejects(i)

\* The steps of the component and of the server behind it, the user making
\* at most `budget` submits and confirmed deletes.  The server's clock
\* stands still meanwhile: the component never reads it.
UISteps(budget) ==
    \/ Mount
    \/ openCreateModal
    \/ openEditModal
    \/ closeModal
    \/ Submit(budget)
    \/ handleDelete(budget)
    \/ Progress
    \/ Fault

UINext == UISteps(MaxClicks)

\* The UserTable component in a browser, talking to the endpoints.
UISpec == Init /\ [][UINext]_vars

UIFairNext == UISteps(MaxFairClicks)

\* The same, where every request is answered or fails in the end and every
\* promise that settled is resumed.
UIFairSpec == Init /\ [][UIFairNext]_vars /\ WF_vars(Progress)

----------------------------------------------------------------------------
(* Properties. *)

UserFields == {"name", "email", "role"}

\* data is a `fields` / `partialFields` value of the Store's contract: an
\* object with exactly (or at most) name, email and role.
IsCreateFields(data) == data # Null /\ data # Undefined /\ DOMAIN data = UserFields
IsPartialFields(data) == data # Null /\ data # Undefined /\ DOMAIN data \subseteq UserFields

\* The record the last update / PUT / delete looked up, before and after.
TargetIndex == findIndex(last.pre, last.id)
Found == TargetIndex # -1

\* The elements of an array.
Elems(seq) == { seq[i] : i \in 1..Len(seq) }

\* The body has a required field missing or empty.
LacksRequired(body) ==
    Falsy(body, "name") \/ Falsy(body, "email") \/ Falsy(body, "role")

\* C1: no two live records share an id; stated at the step that adds a
\* record: the id returned by create(fields) differs from the id of every
\* record live at that moment, also when an earlier create read the same
\* clock value.
C1_CreatedIdIsFresh ==
    (last.op = "create" /\ IsCreateFields(last.data))
       => last.ret.id \notin LiveIds(last.pre)

\* C2: an update of an existing record, and a PUT answered for an existing
\* record, whatever the body, leaves the record's id and createdAt as they
\* were before the call.
C2_IdAndCreatedAtImmutable ==
    (last.op \in {"update", "PUT"} /\ last.fault = "none" /\ Found)
       => /\ users[TargetIndex + 1].id = last.pre[TargetIndex + 1].id
          /\ users[TargetIndex + 1].createdAt = last.pre[TargetIndex + 1].createdAt

\* C3: right after create(fields), getById of the returned id yields the
\* record create returned.
C3_CreateThenGetById ==
    (last.op = "create" /\ IsCreateFields(last.data))
       => getById(users, last.ret.id) = last.ret

\* C4: right after delete(id), getById(id) yields undefined and a second
\* delete(id) returns false.
C4_DeleteThenAbsent ==
    last.op = "delete"
       => /\ getById(users, last.id) = Undefined
          /\ delete(users, last.id).ret = FALSE

\* C5: a POST whose body is an object with name, email or role missing or
\* empty is answered 400 with the fixed error body, calls no Store method
\* and leaves the array as it was.
C5_PostInvalidIs400 ==
    (last.op = "POST" /\ last.fault = "none" /\ last.data # Null
        /\ LacksRequired(last.data))
       => /\ ~last.threw
          /\ last.status = 400
          /\ last.body = [error |-> "Name, email, and role are required"]
          /\ last.calls = <<>>
          /\ users = last.pre

C5_Witness ==
    /\ last.op = "POST"
    /\ last.data = [name |-> "", email |-> "a@b.com", role |-> "User"]
    /\ last.status = 400
    /\ users = last.pre

\* C6: a POST with non-empty name, email and role is answered 201 with the
\* new record: the submitted name, email and role, a non-empty id and a
\* createdAt; a GET right after the response lists that record.
C6_PostValidIs201 ==
    (last.op = "POST" /\ last.fault = "none" /\ last.data # Null
        /\ ~LacksRequired(last.data))
       => /\ last.status = 201
          /\ \A f \in UserFields : last.body[f] = last.data[f]
          /\ "id" \in DOMAIN last.body /\ last.body.id # ""
          /\ "createdAt" \in DOMAIN last.body
          /\ GET(users).status = 200
          /\ last.body \in Elems(GET(users).body)

\* C7: a PUT whose body parses is answered 404 with an error body exactly
\* when no live record has the id, and otherwise 200 with the updated
\* record; the body {} on an existing id is answered 200 and changes nothing.
C7_PutStatus ==
    (last.op = "PUT" /\ last.fault = "none")
       => /\ ~last.threw
          /\ (last.status = 404) <=> (last.id \notin LiveIds(last.pre))
          /\ last.status = 404 => DOMAIN last.body = {"error"} /\ users = last.pre
          /\ last.id \in LiveIds(last.pre)
                => /\ last.status = 200
                   /\ last.body = users[TargetIndex + 1]
                   /\ last.body = Spread(last.pre[TargetIndex + 1], last.data)
          /\ (last.id \in LiveIds(last.pre) /\ last.data = EmptyObj)
                => /\ users = last.pre
                   /\ last.body = last.pre[TargetIndex + 1]

C7_Witness404 ==
    /\ last.op = "PUT" /\ last.fault = "none"
    /\ last.id = "does-not-exist" /\ last.data = [name |-> "X"]
    /\ last.status = 404

C7_Witness ==
    /\ last.op = "PUT" /\ last.fault = "none"
    /\ last.id = "1" /\ last.data = EmptyObj
    /\ last.status = 200
    /\ nOps > 1

\* C8: a DELETE of a live id is answered 200 with the confirmation body and
\* a GET right after lists no record of that id; a DELETE of an id no live
\* record has is answered 404.
C8_DeleteThenGet ==
    (last.op = "DELETE" /\ last.fault = "none")
       => IF last.id \in LiveIds(last.pre)
          THEN /\ last.status = 200
               /\ last.body = [message |-> "User deleted successfully"]
               /\ \A u \in Elems(GET(users).body) : u.id # last.id
          ELSE last.status = 404

\* The generic message of each endpoint's catch block.
GenericError(op) ==
    CASE op = "GET" -> "Failed to fetch users"
      [] op = "POST" -> "Failed to create user"
      [] op = "PUT" -> "Failed to update user"
      [] op = "DELETE" -> "Failed to delete user"

\* The request raised an exception inside the handler: the params promise
\* rejected, request.json() rejected, or the handler read a property of null.
Raised ==
    \/ last.fault # "none"
    \/ last.op = "POST" /\ last.data = Null

\* C9: no exception leaves a handler, and a request that raised one is
\* answered 500 with the endpoint's fixed error body, whatever the exception.
C9_ExceptionsBecome500 ==
    last.op \in {"GET", "POST", "PUT", "DELETE"}
       => /\ ~last.threw
          /\ Raised => /\ last.status = 500
                       /\ last.body = [error |-> GenericError(last.op)]
                       /\ users = last.pre

C9_Witness ==
    /\ last.op = "PUT" /\ last.fault = "json"
    /\ last.status = 500
    /\ nOps > 1

\* C10: update(id, partialFields) on an existing record gives each of name,
\* email and role the supplied value when partialFields has it and keeps the
\* previous value when not; the value returned is the record stored at that
\* id after the call.
C10_UpdateMerges ==
    (last.op = "update" /\ Found /\ IsPartialFields(last.data))
       => /\ \A f \in UserFields :
                users[TargetIndex + 1][f] =
                    IF f \in DOMAIN last.data
                    THEN last.data[f]
                    ELSE last.pre[TargetIndex + 1][f]
          /\ last.ret = getById(users, last.id)

C10_Witness ==
    /\ last.op = "update" /\ last.id = "2"
    /\ last.data = [email |-> "x@y.z", role |-> "Manager"]
    /\ last.ret.name = "Jane Smith" /\ last.ret.role = "Manager"

\* C11: update(id, {}) on a live id leaves every field of the record, and
\* the whole array, as it was, and returns that record.
C11_EmptyUpdateIsNoOp ==
    (last.op = "update" /\ Found /\ last.data = EmptyObj)
       => /\ users = last.pre
          /\ last.ret = last.pre[TargetIndex + 1]
          /\ last.ret.id = last.id

C11_Witness ==
    /\ last.op = "update" /\ last.id = "1" /\ last.data = EmptyObj
    /\ last.ret.name = "X"
    /\ users = last.pre

\* C12: update with an id no live record has returns null and leaves the
\* array as it was, and the same call made again does the same.
C12_UpdateAbsentIsNoOp ==
    (last.op = "update" /\ ~Found)
       => /\ ~last.threw
          /\ last.ret = Null
          /\ users = last.pre
          /\ update(users, last.id, last.data) = [users |-> users, ret |-> Null]

C12_Witness ==
    /\ last.op = "update" /\ last.id = "does-not-exist"
    /\ last.data = [name |-> "X"]
    /\ last.ret = Null
    /\ hist.creates > 0

\* C13, as stated: after N creates and M deletes getAll returns exactly
\* N - M records, each equal to what the create or update that last touched
\* it returned.  M is read in the claim's favour, as the number of deletes
\* that removed a record.
C13_ListCountAsStated ==
    last.op = "getAll"
       => /\ Len(last.ret) = hist.creates - hist.removed
          /\ last.ret = hist.known

\* C13, amended: after N creates and M deletes that returned true getAll
\* returns exactly 3 + N - M records (the three sample users are there from
\* the start), each equal to what the create or update that last touched it
\* returned, or to its initial value for a sample user never touched.
C13_ListCount ==
    last.op = "getAll"
       => /\ Len(last.ret) = Len(SeedUsers) + hist.creates - hist.removed
          /\ last.ret = hist.known

C13_Witness ==
    /\ last.op = "getAll"
    /\ hist.creates = 1 /\ hist.removed = 1
    /\ Len(last.ret) = Len(SeedUsers)

\* C14: the array keeps the order of creation: create appends the new record
\* after all existing ones, update keeps the updated record at its position
\* and every other record at its own, delete keeps the remaining records in
\* their order, and getAll returns the array in that order.
C14_InsertionOrder ==
    /\ last.op = "create" => users = Append(last.pre, last.ret)
    /\ (last.op = "update" /\ Found)
          => /\ Len(users) = Len(last.pre)
             /\ users[TargetIndex + 1] = last.ret
             /\ \A j \in 1..Len(users) : j # TargetIndex + 1 => users[j] = last.pre[j]
    /\ (last.op = "delete" /\ Found)
          => users = RemoveAt(last.pre, TargetIndex + 1)
    /\ last.op = "getAll" => last.ret = users

C14_Witness ==
    /\ last.op = "delete" /\ last.id = "2"
    /\ hist.creates = 1
    /\ Len(users) = 3
    /\ users[1].id = "1" /\ users[2].id = "3" /\ users[3].name \in {"Ann", "Eve"}

\* C15: every live record has a non-empty name, a non-empty email and a
\* non-empty role.
C15_RequiredFieldsNonEmpty ==
    \A i \in 1..Len(users) :
        ~Falsy(users[i], "name") /\ ~Falsy(users[i], "email") /\ ~Falsy(users[i], "role")

\* The record the last create or answered POST made.
Created == IF last.op = "create" THEN last.ret ELSE last.body

\* C16: the id of a record made by create, or by a POST answered 201, is the
\* one the Store generates from the clock, whatever the data or body holds.
C16_IdIsStoreGenerated ==
    (last.op = "create" \/ (last.op = "POST" /\ last.status = 201))
       => Created.id = DateNowToString(last.at)

\* C18: getAll and getById leave the array as it was, getAll returns it,
\* getById returns a live record of the id asked for when there is one and
\* undefined when there is none; GET answers 200 with the array and leaves
\* it as it was.
C18_ReadsChangeNothing ==
    /\ last.op \in {"getAll", "getById"} => users = last.pre
    /\ last.op = "getAll" => last.ret = last.pre
    /\ last.op = "getById"
          => IF last.id \in LiveIds(last.pre)
             THEN /\ last.ret = last.pre[TargetIndex + 1]
                  /\ last.ret.id = last.id
             ELSE last.ret = Undefined
    /\ GET(users).users = users
    /\ GET(users).status = 200
    /\ GET(users).body = users

C18_Witness ==
    /\ last.op = "getById" /\ last.id = "2"
    /\ last.ret.name = "X"
    /\ users = last.pre

\* C20: create sets createdAt to the clock reading of the call, whatever the
\* data holds, and no later operation gives the record another createdAt:
\* every live record carries the createdAt it was created with.
C20_CreatedAtSetOnce ==
    /\ last.op = "create" => last.ret.createdAt = ToISOString(last.at)
    /\ Len(hist.born) = Len(users)
    /\ \A i \in 1..Len(users) : users[i].createdAt = hist.born[i]

\* The requests i and j are two PUTs answered 200 for the same id whose
\* bodies set different fields.
DisjointPuts(i, j) ==
    /\ i # j
    /\ reqs[i].pc = "done" /\ reqs[j].pc = "done"
    /\ reqs[i].kind = "PUT" /\ reqs[j].kind = "PUT"
    /\ reqs[i].status = 200 /\ reqs[j].status = 200
    /\ reqs[i].req.id = reqs[j].req.id
    /\ IsPartialFields(reqs[i].req.body) /\ IsPartialFields(reqs[j].req.body)
    /\ DOMAIN reqs[i].req.body # {} /\ DOMAIN reqs[j].req.body # {}
    /\ (DOMAIN reqs[i].req.body) \cap (DOMAIN reqs[j].req.body) = {}

\* C17: with requests interleaving at the await points only, the array is
\* what the Store calls give when made one at a time in the order invoked,
\* and no update is lost: after two PUTs on one id that set different
\* fields, no other Store call having changed the array, the record has the
\* fields of both.
C17_StoreCallsAreSerial ==
    /\ users = Replay(log, SeedUsers)
    /\ \A i \in 1..MaxReqs : \A j \in 1..MaxReqs :
          (/\ DisjointPuts(i, j)
           /\ \A k \in 1..Len(log) :
                 log[k].op = "getAll"
                 \/ (log[k].op = "update"
                     /\ log[k].data \in {reqs[i].req.body, reqs[j].req.body}))
             => LET rec == getById(users, reqs[i].req.id) IN
                /\ \A f \in DOMAIN reqs[i].req.body : rec[f] = reqs[i].req.body[f]
                /\ \A f \in DOMAIN reqs[j].req.body : rec[f] = reqs[j].req.body[f]

\* Two PUTs on id 1 that were both in flight before either made its Store
\* call, and both took effect.
C17_Witness ==
    /\ DisjointPuts(1, 2)
    /\ reqs[1].seen = SeedUsers /\ reqs[2].seen = SeedUsers
    /\ getById(users, "1").name = "X"
    /\ getById(users, "1").role = "Manager"

\* C19: what getAll returned is the caller's own snapshot: it keeps the
\* contents it had when returned whatever the Store does later, and a record
\* the caller pushes onto it does not appear in the Store's array.
C19_GetAllReturnsSnapshot ==
    /\ held # "none" => ContentsOf(held, users) = snap
    /\ last.op = "callerPush" => users = last.pre

\* C21: at process start, before any request, the array holds exactly three
\* records with the ids "1", "2", "3" in that order, each with a non-empty
\* name, email and role.
C21_ThreeSeedsAtStart ==
    nOps = 0
       => /\ Len(users) = 3
          /\ <<users[1].id, users[2].id, users[3].id>> = <<"1", "2", "3">>
          /\ \A i \in 1..3 : ~LacksRequired(users[i])

\* The process has run for a while and no request has been made.
C21_Witness == nOps = 0 /\ now = MaxClock /\ Len(users) = 3

\* C22: a request answered with a status other than 200 or 201 leaves the
\* array exactly as it was before the request.
C22_ErrorsChangeNothing ==
    (last.op \in {"GET", "POST", "PUT", "DELETE"} /\ last.status \notin {200, 201})
       => users = last.pre

\* A POST answered 400 on an array that an earlier request had changed.
C22_Witness ==
    /\ last.op = "POST" /\ last.status = 400
    /\ last.data # EmptyObj
    /\ users # SeedUsers

\* C23: a successful update leaves the number of records and every record
\* but the one it looked up as they were; a successful delete removes
\* exactly one record, the one it looked up, and leaves every other record
\* (so every record with a different id) as it was and live.
C23_OnlyTargetTouched ==
    /\ (last.op = "update" /\ last.ret # Null)
          => /\ Len(users) = Len(last.pre)
             /\ \A i \in 1..Len(users) :
                   i # TargetIndex + 1 => users[i] = last.pre[i]
    /\ (last.op = "delete" /\ last.ret = TRUE)
          => /\ Len(users) = Len(last.pre) - 1
             /\ last.pre[TargetIndex + 1].id = last.id
             /\ \A i \in 1..Len(users) :
                   users[i] = last.pre[IF i <= TargetIndex THEN i ELSE i + 1]

\* A successful delete of an id that two live records carried.
C23_Witness ==
    /\ last.op = "delete" /\ last.ret = TRUE
    /\ Cardinality({ i \in 1..Len(last.pre) : last.pre[i].id = last.id }) = 2
    /\ last.id \in LiveIds(users)

\* The tasks that are inside fetchUsers, waiting on a GET.
GetsInFlight(ts) == { i \in 1..Len(ts) : ts[i].method = "GET" }

\* C24: every run of fetchUsers ends with isLoading false, whether the GET
\* succeeds, fails or brings a body that cannot be parsed (so isLoading is
\* false whenever the component is mounted and no fetchUsers is running);
\* after mount isLoading becomes false in the end; and once false it is
\* never true again.
C24_LoadingEnds ==
    /\ []((mounted /\ GetsInFlight(tasks) = {}) => ~isLoading)
    /\ (mounted ~> ~isLoading)
    /\ [][~isLoading => ~isLoading']_vars

\* The first fetchUsers failed and the spinner is gone.
C24_Witness ==
    /\ mounted /\ tasks = <<>> /\ faults = 1 /\ clicks = 0
    /\ uiUsers = JsonArray(<<>>)
    /\ ~isLoading

\* C25: once every request of the component has completed (none of them
\* having gone wrong, and nobody else changing the Store), the list the
\* component holds is the list the Store returns.
C25_ListMatchesStore ==
    (mounted /\ tasks = <<>> /\ faults = 0)
       => uiUsers = JsonArray(getAll(users))

\* C26: a closed modal implies that no user is being edited.
C26_ClosedMeansNotEditing == ~isModalOpen => editingUser = Undefined

\* C27: the users state of the component is always an array of records;
\* the error object of a failed GET is never stored into it.
C27_UsersIsAlwaysAList == IsArray(uiUsers)

\* C28: the step in which a create or update learns that its request was
\* answered with a non-success status or failed leaves isModalOpen,
\* editingUser and the users state as they were and sends no GET; the step
\* in which the user declines the delete confirmation sends no request and
\* leaves the Store's array as it was.
C28_FailureChangesNothing ==
    [][ /\ ev' = "failed"
           => /\ isModalOpen' = isModalOpen
              /\ editingUser' = editingUser
              /\ uiUsers' = uiUsers
              /\ Cardinality(GetsInFlight(tasks')) <= Cardinality(GetsInFlight(tasks))
        /\ ev' = "declined"
           => /\ tasks' = tasks
              /\ users' = users ]_vars

\* An update was answered 404 (no request went wrong on the way): the modal
\* is still open on the user being edited.
C28_Witness ==
    /\ ev = "failed" /\ faults = 0
    /\ isModalOpen /\ editingUser # Undefined

====
